---- MODULE Spec2Model ----
(***************************************************************************)
(* Model of engine/grit_object.cpp: the object registry (objs), the two    *)
(* callback hot-sets, GritObject's lifecycle methods and the dispatch      *)
(* passes.  The program is single threaded but re-entrant: every scripted  *)
(* hook (lua_pcall) may call back into the registry before it returns.     *)
(* The C++ call stack is therefore explicit (stack), one frame per         *)
(* function that is suspended at a lua_pcall or at a call that may reach   *)
(* one; a frame's pc names the place it resumes at.                        *)
(***************************************************************************)
EXTENDS Integers, Sequences, FiniteSets, TLC

\* ------------------------------------------------------------------ bounds
MaxRecs == 2        \* GritObject records ever constructed in one run
MaxHooks == 3       \* hooks running at once (nested lua_pcall frames)
MaxNested == 2      \* calls the hooks of one outer operation make in all
MaxCounter == 3     \* name_generation_counter stays below this
FadeGrid == 4       \* factors and ranges are multiples of 1 / FadeGrid

\* --------------------------------------------------------------- constants
NULL == "NULL"              \* gritClass == NULL
LUA_NOREF == -2             \* lauxlib.h, used at grit_object.cpp:43
NoRec == 0                  \* objs.end(): no record under that name

Recs == 1..MaxRecs
Classes == {"A", "K", "N"}
Fields == {"activate", "deactivate", "init", "setFade", "frameCallback", "stepCallback"}

\* The fields each class table defines (GritClass::get): K defines every
\* behaviour, A only activate, N none.
ClassFields(c) ==
    IF c = "K" THEN Fields
    ELSE IF c = "A" THEN {"activate"}
    ELSE {}

\* ------------------------------------------------------------------- names
\* Names are strings; a name is kept as the list of its ':'-separated parts.
\* <<"Unnamed", c, k>> is "Unnamed:<c>:<k>", line 540.
GenName(c, k) == <<"Unnamed", c, k>>
PlainNames == {<<"a">>, <<"b">>}
GenNames == {GenName(c, k) : c \in Classes, k \in 0..(MaxCounter - 1)}
Names == PlainNames \cup GenNames

\* The alphabetical order of the class names.
ClassLess(c, d) == (c = "A" /\ d # "A") \/ (c = "K" /\ d = "N")

\* std::map<std::string,...> iterates in lexicographic order of the names:
\* 'U' < 'a' < 'b', then the class name, then the (one digit) counter.
NameLess(m, n) ==
    IF Len(m) = 1 THEN Len(n) = 1 /\ m[1] = "a" /\ n[1] = "b"
    ELSE IF Len(n) = 1 THEN TRUE
    ELSE IF m[2] # n[2] THEN ClassLess(m[2], n[2])
    ELSE m[3] < n[3]

\* ----------------------------------------------------------------- numbers
\* The floats of calcFade are kept as fractions <<numerator, denominator>> in
\* lowest terms with a positive denominator.
RECURSIVE GCD(_, _)
GCD(a, b) == IF b = 0 THEN a ELSE GCD(b, a % b)

Abs(n) == IF n < 0 THEN -n ELSE n

Rat(n, d) ==
    LET g == GCD(Abs(n), Abs(d))
        sgn == IF d < 0 THEN -1 ELSE 1
    IN  <<(sgn * n) \div g, (sgn * d) \div g>>

RAdd(x, y) == Rat(x[1] * y[2] + y[1] * x[2], x[2] * y[2])
RSub(x, y) == Rat(x[1] * y[2] - y[1] * x[2], x[2] * y[2])
RMul(x, y) == Rat(x[1] * y[1], x[2] * y[2])
RDiv(x, y) == Rat(x[1] * y[2], x[2] * y[1])
RLess(x, y) == x[1] * y[2] < y[1] * x[2]
RLeq(x, y) == x[1] * y[2] <= y[1] * x[2]

RZero == Rat(0, 1)
ROne == Rat(1, 1)
RTwo == Rat(2, 1)

\* The values streamer_fade_out_factor and streamer_fade_overlap_factor take,
\* in [0, 1), and the distances calcFade is asked about, some beyond 1.
Factors == {Rat(k, FadeGrid) : k \in 0..(FadeGrid - 1)}
Ranges == {Rat(k, FadeGrid) : k \in 0..(FadeGrid + 2)}

\* ::sqrtf on the squares of the distances.
sqrtf(x) == CHOOSE r \in Ranges : RMul(r, r) = x

VARIABLES
    objs,       \* GObjMap objs: name -> record, NoRec when absent
    obj,        \* the GritObject records ever constructed
    nrec,       \* how many records have been constructed
    frameSet,   \* objs_needing_frame_callbacks
    stepSet,    \* objs_needing_step_callbacks
    listed,     \* records the streamer lists (streamer_list / streamer_unlist)
    activated,  \* records the streamer lists as activated
    counter,    \* name_generation_counter
    refs,       \* class -> acquire() calls minus release() calls
    streamer_fade_out_factor,       \* the streamer's two tunable factors
    streamer_fade_overlap_factor,
    stack,      \* the C++ call stack, innermost frame last
    exc,        \* exception raised by the last step ("none" when none)
    escaped,    \* the exception left the outermost operation
    ub,         \* "none", or what a NULL gritClass dereference led to
    ncalls,     \* calls the hooks of the running operation have made
    ev          \* what the last step did (observation only)

heapvars == <<objs, obj, nrec, frameSet, stepSet, listed, activated, counter, refs,
              streamer_fade_out_factor, streamer_fade_overlap_factor>>
vars == <<objs, obj, nrec, frameSet, stepSet, listed, activated, counter, refs,
          streamer_fade_out_factor, streamer_fade_overlap_factor,
          stack, exc, escaped, ub, ncalls, ev>>

\* The data the operations work on, as one value.
Heap == [objs |-> objs, obj |-> obj, nrec |-> nrec, frameSet |-> frameSet,
         stepSet |-> stepSet, listed |-> listed, activated |-> activated,
         counter |-> counter, refs |-> refs,
         streamer_fade_out_factor |-> streamer_fade_out_factor,
         streamer_fade_overlap_factor |-> streamer_fade_overlap_factor]

SetHeap(h) ==
    /\ objs' = h.objs
    /\ obj' = h.obj
    /\ nrec' = h.nrec
    /\ frameSet' = h.frameSet
    /\ stepSet' = h.stepSet
    /\ listed' = h.listed
    /\ activated' = h.activated
    /\ counter' = h.counter
    /\ refs' = h.refs
    /\ streamer_fade_out_factor' = h.streamer_fade_out_factor
    /\ streamer_fade_overlap_factor' = h.streamer_fade_overlap_factor

\* A record before its constructor has run.
NoObject == [name |-> <<>>, anonymous |-> FALSE, gritClass |-> NULL, lua |-> LUA_NOREF,
             needsFrameCallbacks |-> FALSE, needsStepCallbacks |-> FALSE,
             userValues |-> {}, lastFade |-> -1,
             imposedFarFade |-> ROne, near |-> NoRec, far |-> NoRec]

\* GritObject::GritObject: the fields as constructed; acquire() is counted by
\* the caller's heap update in object_add.
GritObject(name_, gritClass_) ==
    [name |-> name_, anonymous |-> FALSE, gritClass |-> gritClass_, lua |-> LUA_NOREF,
     needsFrameCallbacks |-> FALSE, needsStepCallbacks |-> FALSE,
     userValues |-> {}, lastFade |-> -1,
     imposedFarFade |-> ROne, near |-> NoRec, far |-> NoRec]

isActivated(h, o) == h.obj[o].lua # LUA_NOREF

\* GritObject::getField on a live record: the record's own values first, then
\* the class.  TRUE when the lookup yields a non-nil value.
getField(h, o, f) ==
    \/ f \in h.obj[o].userValues
    \/ f \in ClassFields(h.obj[o].gritClass)

\* ------------------------------------------------------------------ frames
\* kind: the suspended function; pc: where it resumes; o: the record it works
\* on; name, cls: object_add's arguments; which: the hot-set of a dispatch pass;
\* todo: what object_all_del has still to visit; victims: what a pass has still
\* to visit; snap: the snapshot either took; calls: the records a pass has
\* dispatched to; why: the reason the frame called object_del.
Frame(kind, pc, o) ==
    [kind |-> kind, pc |-> pc, o |-> o, name |-> <<>>, cls |-> NULL, which |-> "none",
     todo |-> <<>>, victims |-> {}, snap |-> {}, calls |-> <<>>, why |-> "none"]

Top == stack[Len(stack)]
Push(s, f) == Append(s, f)
Pop(s) == SubSeq(s, 1, Len(s) - 1)
SetTop(s, f) == [s EXCEPT ![Len(s)] = f]

\* What the last step did: the event, the record, a detail of it, and the
\* snapshot a finished object_all_del had taken.
NoEv == [what |-> "none", o |-> NoRec, r |-> "none", snap |-> {}]
Ev3(what, o, r) == [what |-> what, o |-> o, r |-> r, snap |-> {}]
Ev(what, o) == Ev3(what, o, "none")

\* GRIT_EXCEPT: the C++ frames above the innermost running hook are unwound
\* (the script that made the call gets the error); with no hook on the stack
\* the exception leaves the outermost operation.
RECURSIVE Unwind(_)
Unwind(s) ==
    IF s = <<>> THEN <<>>
    ELSE IF s[Len(s)].kind = "hook" THEN s
    ELSE Unwind(SubSeq(s, 1, Len(s) - 1))

\* ------------------------------------------------- GritObject, piece by piece
\* destroy, lines 56-61: leave both hot-sets (the flags are not cleared).
destroy_hotsets(h, o) ==
    [h EXCEPT !.frameSet = IF h.obj[o].needsFrameCallbacks THEN @ \ {o} ELSE @,
              !.stepSet = IF h.obj[o].needsStepCallbacks THEN @ \ {o} ELSE @]

\* deactivate, line 275.
unlist_as_activated(h, o) == [h EXCEPT !.activated = @ \ {o}]

\* deactivate as if the instance reference were kept.
unref_instance_skipped(h, o) == h

\* deactivate, lines 294-295 and 324-325: luaL_unref does nothing for LUA_NOREF.
unref_instance(h, o) == [h EXCEPT !.obj[o].lua = LUA_NOREF]

\* destroy, lines 65-68, on a record whose gritClass is not NULL.
destroy_release(h, o) ==
    [h EXCEPT !.refs[h.obj[o].gritClass] = @ - 1,
              !.obj[o].gritClass = NULL,
              !.obj[o].userValues = {}]

\* destroy, lines 66-68, after line 65 dereferenced a NULL gritClass and the
\* program went on.
destroy_after_null(h, o) ==
    [h EXCEPT !.obj[o].gritClass = NULL,
              !.obj[o].userValues = {}]

\* object_del, lines 563-569: unlist, then erase whatever the name maps to.
del_erase(h, o) ==
    [h EXCEPT !.listed = @ \ {o},
              !.objs[h.obj[o].name] = NoRec]

\* setNeedsFrameCallbacks / setNeedsStepCallbacks on a live record.
setNeedsFrameCallbacks(h, o, v) ==
    IF v = h.obj[o].needsFrameCallbacks THEN h
    ELSE [h EXCEPT !.obj[o].needsFrameCallbacks = v,
                   !.frameSet = IF v THEN @ \cup {o} ELSE @ \ {o}]

setNeedsStepCallbacks(h, o, v) ==
    IF v = h.obj[o].needsStepCallbacks THEN h
    ELSE [h EXCEPT !.obj[o].needsStepCallbacks = v,
                   !.stepSet = IF v THEN @ \cup {o} ELSE @ \ {o}]

setNeeds(h, o, which, v) ==
    IF which = "frame" THEN setNeedsFrameCallbacks(h, o, v)
    ELSE setNeedsStepCallbacks(h, o, v)


\* ---------------------------------------------------------- running code
\* The outcome of running C++ code until it returns to the frame loop or
\* stops at a lua_pcall: the data, the stack, the last event, what a NULL
\* dereference led to, and the exception raised.
Res(h, s, e) == [h |-> h, s |-> s, e |-> e, ub |-> "none", exc |-> "none"]

Thrown(h, s, o) ==
    [h |-> h, s |-> Unwind(s), e |-> Ev("throw", o), ub |-> "none", exc |-> "Object destroyed"]

\* Lines 552-555: construct the record (acquiring the class, line 50), map
\* the name to it and list it with the streamer.
add_insert(h, name, c, anon) ==
    LET self == h.nrec + 1 IN
    [h EXCEPT !.nrec = self,
              !.obj[self] = [GritObject(name, c) EXCEPT !.anonymous = anon],
              !.refs[c] = @ + 1,
              !.objs[name] = self,
              !.listed = @ \cup {self}]

RECURSIVE object_del(_, _, _), Resume(_, _, _)

\* object_del(o) called with s the frames of its callers.  destroy and
\* deactivate are inlined up to the deactivate hook; when no hook has to
\* run, the rest of destroy and of object_del follows and the caller resumes.
object_del(h, s, o) ==
    IF h.obj[o].gritClass = NULL
    THEN \* destroy returns at line 55
         Resume(del_erase(h, o), s, Ev("del_dead", o))
    ELSE LET h1 == destroy_hotsets(h, o) IN
         IF ~isActivated(h1, o)
         THEN \* deactivate returns false at line 271
              Resume(del_erase(destroy_release(h1, o), o), s, Ev("del_done", o))
         ELSE LET h2 == unlist_as_activated(h1, o) IN
              IF ~getField(h2, o, "deactivate")
              THEN Resume(del_erase(destroy_release(unref_instance(h2, o), o), o), s,
                          Ev("del_done", o))
              ELSE Res(h2, s \o <<Frame("del", "hook", o), Frame("hook", "deactivate", o)>>,
                       Ev("del_hook", o))

\* The frame on top of s gets control back from object_del.
Resume(h, s, e) ==
    IF s = <<>> THEN Res(h, s, e)
    ELSE LET f == s[Len(s)] IN
         IF f.kind = "add"
         THEN \* object_add, lines 552-557
              Resume(add_insert(h, f.name, f.cls, FALSE), Pop(s),
                     Ev3("add_replaced", h.nrec + 1, e.r))
         ELSE IF f.kind = "alldel"
         THEN \* object_all_del, lines 596-598
              IF f.todo = <<>>
              THEN Resume(h, Pop(s), [Ev("alldel_done", NoRec) EXCEPT !.snap = f.snap])
              ELSE object_del(h, SetTop(s, [f EXCEPT !.todo = Tail(@)]), Head(f.todo))
         ELSE IF f.kind \in {"activate", "deactivate", "init", "notifyFade"}
         THEN \* the function returns after its object_del(self)
              Resume(h, Pop(s), Ev3(f.kind \o "_deleted", f.o, f.why))
         ELSE Res(h, s, e)

\* object_del after the deactivate hook returned: the rest of deactivate
\* (lines 309-331), of destroy (65-68) and of object_del (563-569).  When the
\* record was destroyed while the hook ran, line 65 dereferences NULL: the
\* program stops there, or (go) goes on.
object_del_resume(h, s, go) ==
    LET o == s[Len(s)].o
        h1 == unref_instance(h, o)
    IN  IF h1.obj[o].gritClass # NULL
        THEN Resume(del_erase(destroy_release(h1, o), o), Pop(s), Ev3("del_done", o, "hooked"))
        ELSE IF go
        THEN [Resume(del_erase(destroy_after_null(h1, o), o), Pop(s),
                     Ev3("del_done", o, "hooked"))
                EXCEPT !.ub = "continued"]
        ELSE [Res(h1, s, Ev("null_deref", o)) EXCEPT !.ub = "crashed"]

\* killme as if the hook's result were dropped.
killme_dropped(status, val) == FALSE

\* The killme result of deactivate (lines 309-321).
killme(status, val) == IF status # 0 THEN TRUE ELSE val

\* The caller of deactivate deletes the record that asks for it.
streamer_deactivate(h, s, o, kill, why) ==
    IF kill
    THEN object_del(h, Append(s, [Frame("deactivate", "del", o) EXCEPT !.why = why]), o)
    ELSE Res(h, s, Ev3("deactivate_false", o, why))

\* activate as if an error of the hook were only logged.
activate_resume_logged(h, s, status) ==
    LET f == s[Len(s)] IN
    IF status # 0
    THEN Res(h, Pop(s), Ev3("activate_deleted", f.o, "error"))
    ELSE Res([h EXCEPT !.activated = @ \cup {f.o}, !.obj[f.o].lastFade = -1], Pop(s),
             Ev("activate_ok", f.o))

\* GritObject::activate after the hook returned (lines 199-222).
activate_resume(h, s, status) ==
    LET f == s[Len(s)] IN
    IF status # 0
    THEN object_del(h, SetTop(s, [f EXCEPT !.pc = "del", !.why = "error"]), f.o)
    ELSE Res([h EXCEPT !.activated = @ \cup {f.o}, !.obj[f.o].lastFade = -1], Pop(s),
             Ev("activate_ok", f.o))

\* GritObject::deactivate after the hook returned (lines 309-331).
deactivate_resume(h, s, status, val) ==
    LET f == s[Len(s)] IN
    streamer_deactivate(unref_instance(h, f.o), Pop(s), f.o, killme(status, val),
                        IF status # 0 THEN "error" ELSE IF val THEN "true" ELSE "false")

\* GritObject::init after the hook returned (lines 367-383).
init_resume(h, s, status) ==
    LET f == s[Len(s)] IN
    IF status # 0
    THEN object_del(h, SetTop(s, [f EXCEPT !.pc = "del", !.why = "error"]), f.o)
    ELSE Res(h, Pop(s), Ev("init_ok", f.o))

\* GritObject::notifyFade after the hook returned (lines 112-125).
notifyFade_resume(h, s, status) ==
    LET f == s[Len(s)] IN
    IF status # 0
    THEN object_del(h, SetTop(s, [f EXCEPT !.pc = "del", !.why = "error"]), f.o)
    ELSE Res(h, Pop(s), Ev("fade_ok", f.o))

\* A dispatch pass after frameCallback / stepCallback returned (413-426,
\* 610-612): a false result unsubscribes the record.
object_do_callbacks_resume(h, s, status) ==
    LET f == s[Len(s)] IN
    IF status = 0
    THEN Res(h, SetTop(s, [f EXCEPT !.pc = "loop"]), Ev("pass_ok", f.o))
    ELSE IF h.obj[f.o].gritClass = NULL
    THEN Thrown(h, s, f.o)
    ELSE Res(setNeeds(h, f.o, f.which, FALSE), SetTop(s, [f EXCEPT !.pc = "loop"]),
             Ev("pass_error", f.o))

\* The frame that ran the hook goes on with what lua_pcall returned.
AfterHook(h, s, status, val, go) ==
    LET kind == s[Len(s)].kind IN
    IF kind = "del" THEN object_del_resume(h, s, go)
    ELSE IF kind = "activate" THEN activate_resume(h, s, status)
    ELSE IF kind = "deactivate" THEN deactivate_resume(h, s, status, val)
    ELSE IF kind = "init" THEN init_resume(h, s, status)
    ELSE IF kind = "notifyFade" THEN notifyFade_resume(h, s, status)
    ELSE object_do_callbacks_resume(h, s, status)

\* activate as if a missing "activate" field were only logged.
activate_logged(h, s, o, loadOk) ==
    IF isActivated(h, o) THEN Res(h, s, Ev("activate_noop", o))
    ELSE IF h.obj[o].gritClass = NULL THEN Thrown(h, s, o)
    ELSE IF ~loadOk
    THEN object_del(h, Append(s, [Frame("activate", "del", o) EXCEPT !.why = "loaderr"]), o)
    ELSE IF ~getField(h, o, "activate")
    THEN Res(h, s, Ev3("activate_deleted", o, "nofield"))
    ELSE Res([h EXCEPT !.obj[o].lua = o],
             s \o <<Frame("activate", "hook", o), Frame("hook", "activate", o)>>,
             Ev("activate_hook", o))

\* GritObject::activate up to the activate hook (lines 131-198).  loadOk: the
\* demand is loaded, or immediateLoad succeeds.
activate(h, s, o, loadOk) ==
    IF isActivated(h, o) THEN Res(h, s, Ev("activate_noop", o))
    ELSE IF h.obj[o].gritClass = NULL THEN Thrown(h, s, o)
    ELSE IF ~loadOk
    THEN object_del(h, Append(s, [Frame("activate", "del", o) EXCEPT !.why = "loaderr"]), o)
    ELSE IF ~getField(h, o, "activate")
    THEN object_del(h, Append(s, [Frame("activate", "del", o) EXCEPT !.why = "nofield"]), o)
    ELSE \* line 193: the instance is referenced before the call
         Res([h EXCEPT !.obj[o].lua = o],
             s \o <<Frame("activate", "hook", o), Frame("hook", "activate", o)>>,
             Ev("activate_hook", o))

\* GritObject::deactivate up to the deactivate hook (lines 269-308).
deactivate(h, s, o) ==
    IF h.obj[o].gritClass = NULL THEN Thrown(h, s, o)
    ELSE IF ~isActivated(h, o) THEN streamer_deactivate(h, s, o, FALSE, "noop")
    ELSE LET h1 == unlist_as_activated(h, o) IN
         IF ~getField(h1, o, "deactivate")
         THEN streamer_deactivate(unref_instance(h1, o), s, o, TRUE, "nofield")
         ELSE Res(h1, s \o <<Frame("deactivate", "hook", o), Frame("hook", "deactivate", o)>>,
                  Ev("deactivate_hook", o))

\* GritObject::init up to the init hook (lines 337-366).
init(h, s, o) ==
    IF h.obj[o].gritClass = NULL THEN Thrown(h, s, o)
    ELSE IF ~getField(h, o, "init")
    THEN object_del(h, Append(s, [Frame("init", "del", o) EXCEPT !.why = "nofield"]), o)
    ELSE Res(h, s \o <<Frame("init", "hook", o), Frame("hook", "init", o)>>,
             Ev("init_hook", o))

\* GritObject::notifyFade up to the setFade hook (lines 78-111).
notifyFade(h, s, o) ==
    IF h.obj[o].gritClass = NULL THEN Thrown(h, s, o)
    ELSE IF ~isActivated(h, o) THEN Res(h, s, Ev("fade_noop", o))
    ELSE IF ~getField(h, o, "setFade") THEN Res(h, s, Ev("fade_nofield", o))
    ELSE Res(h, s \o <<Frame("notifyFade", "hook", o), Frame("hook", "setFade", o)>>,
             Ev("fade_hook", o))

\* The name generation as if the counter were used without the lookup.
FreeCounter_unchecked(h, c, k) == k

\* The clamps as if lines 262-263 were missing.
clamp0_missing(x) == x

\* The lower clamps of lines 262-263.
clamp0(x) == IF RLess(x, RZero) THEN RZero ELSE x

\* The falloff as if the division were forgotten.
falloff_undivided(range, from) == RSub(ROne, range)

\* Lines 246 and 254: (1-range) / (1-from).
falloff(range, from) == RDiv(RSub(ROne, range), RSub(ROne, from))

\* overmid as if the halving were forgotten.
overmid_unhalved(over) == RAdd(over, ROne)

\* Line 252: (over + 1)/2.
overmid_of(over) == RDiv(RAdd(over, ROne), RTwo)

\* GritObject::calcFade (lines 225-265) on record o: the record's new
\* imposedFarFade, the fade returned, and whether the caller's overlap flag
\* is set (line 241; it is left alone otherwise).
calcFade(h, o, range2) ==
    LET the_near == h.obj[o].near
        the_far == h.obj[o].far
        out == h.streamer_fade_out_factor
        over == h.streamer_fade_overlap_factor
        range == sqrtf(range2)
        adopt == the_near # NoRec /\ isActivated(h, the_near)
        fade0 == IF adopt THEN h.obj[the_near].imposedFarFade ELSE ROne
        overlap1 == adopt /\ RLess(fade0, ROne)
        overmid == overmid_of(over)
        fade1 == IF the_far = NoRec
                 THEN IF RLess(out, range) THEN falloff(range, out) ELSE fade0
                 ELSE IF RLess(overmid, range) THEN falloff(range, overmid) ELSE fade0
        imposed1 == IF the_far = NoRec THEN ROne
                    ELSE IF RLess(overmid, range) THEN ROne
                    ELSE IF RLess(over, range)
                    THEN RSub(ROne, RDiv(RSub(overmid, range), RSub(overmid, over)))
                    ELSE RZero
    IN  [imposedFarFade |-> clamp0(imposed1), fade |-> clamp0(fade1), overlap |-> overlap1]

\* calcFade as called by the streamer.
calcFade_call(h, s, o, range2) ==
    LET c == calcFade(h, o, range2) IN
    Res([h EXCEPT !.obj[o].imposedFarFade = c.imposedFarFade], s,
        [what |-> "calcFade", o |-> o, r |-> "none", snap |-> {},
         range |-> sqrtf(range2), fade |-> c.fade, overlap |-> c.overlap])

\* The do-while of lines 538-543: the first counter value, from k on, whose
\* name is free.
RECURSIVE FreeCounter(_, _, _)
FreeCounter(h, c, k) ==
    IF h.objs[GenName(c, k)] = NoRec THEN k ELSE FreeCounter(h, c, k + 1)

\* object_add as if the record under the name were overwritten in the map.
object_add_overwrite(h, s, name_, c) ==
    LET anon == name_ = <<>>
        k == IF anon THEN FreeCounter(h, c, h.counter) ELSE 0
        name == IF anon THEN GenName(c, k) ELSE name_
        h1 == IF anon THEN [h EXCEPT !.counter = k + 1] ELSE h
    IN  Res(add_insert(h1, name, c, anon), s,
            Ev(IF anon THEN "add_anon"
               ELSE IF h1.objs[name] # NoRec THEN "add_replaced" ELSE "add_new",
               h1.nrec + 1))

\* object_add (lines 533-558); name = "" is written <<>>.
object_add(h, s, name_, c) ==
    LET anon == name_ = <<>>
        k == IF anon THEN FreeCounter(h, c, h.counter) ELSE 0
        name == IF anon THEN GenName(c, k) ELSE name_
        h1 == IF anon THEN [h EXCEPT !.counter = k + 1] ELSE h
    IN  IF h1.objs[name] # NoRec
        THEN object_del(h1, Append(s, [Frame("add", "del", h1.objs[name])
                                         EXCEPT !.name = name, !.cls = c]),
                        h1.objs[name])
        ELSE Res(add_insert(h1, name, c, anon), s,
                 Ev(IF anon THEN "add_anon" ELSE "add_new", h1.nrec + 1))

RECURSIVE SortedNames(_)
SortedNames(S) ==
    IF S = {} THEN <<>>
    ELSE LET m == CHOOSE n \in S : \A k \in S \ {n} : NameLess(n, k)
         IN  <<m>> \o SortedNames(S \ {m})

Registered(h) == {n \in Names : h.objs[n] # NoRec}

object_count(h) == Cardinality(Registered(h))

object_has(h, n) == h.objs[n] # NoRec

\* Line 595: GObjMap m = objs, in the map's order.
all_del_snapshot(h) ==
    LET order == SortedNames(Registered(h))
    IN  [i \in 1..Len(order) |-> h.objs[order[i]]]

\* object_all_del (lines 593-599).
object_all_del(h, s) ==
    LET m == all_del_snapshot(h) IN
    Resume(h, Append(s, [Frame("alldel", "loop", NoRec)
                            EXCEPT !.todo = m, !.snap = {m[i] : i \in 1..Len(m)}]),
           Ev("alldel_snapshot", NoRec))

HotSet(h, which) == IF which = "frame" THEN h.frameSet ELSE h.stepSet
HookOf(which) == IF which = "frame" THEN "frameCallback" ELSE "stepCallback"

\* The set a pass walks: a copy of the hot-set (lines 607, 618).
victims_of(h, which) == HotSet(h, which)

\* object_do_frame_callbacks, line 607.
object_do_frame_callbacks(h, s) ==
    Res(h, Append(s, [Frame("pass", "loop", NoRec)
                        EXCEPT !.which = "frame", !.victims = victims_of(h, "frame"),
                               !.snap = victims_of(h, "frame")]),
        Ev("pass_snapshot", NoRec))

\* object_do_step_callbacks, line 618.
object_do_step_callbacks(h, s) ==
    Res(h, Append(s, [Frame("pass", "loop", NoRec)
                        EXCEPT !.which = "step", !.victims = victims_of(h, "step"),
                               !.snap = victims_of(h, "step")]),
        Ev("pass_snapshot", NoRec))

\* One turn of a pass (609-612 / 620-623) on victim i, up to the hook:
\* frameCallback or stepCallback (386-412 / 429-456).
dispatch(h, s, i) ==
    LET f == s[Len(s)]
        g == [f EXCEPT !.victims = @ \ {i}, !.calls = Append(@, i), !.o = i]
    IN  IF h.obj[i].gritClass = NULL THEN Thrown(h, s, i)
        ELSE IF ~getField(h, i, HookOf(f.which))
        THEN \* the callback returns false: unsubscribe
             Res(setNeeds(h, i, f.which, FALSE), SetTop(s, g), Ev("pass_nofield", i))
        ELSE Res(h, Append(SetTop(s, [g EXCEPT !.pc = "hook"]),
                           Frame("hook", HookOf(f.which), i)),
                 Ev("pass_hook", i))

\* setNeeds*Callbacks as if line 493 / 506 were missing.
needs_call_unchecked(h, s, o, which, v) ==
    Res(setNeeds(h, o, which, v), s, Ev("needs", o))

\* setNeedsFrameCallbacks / setNeedsStepCallbacks as called from outside.
needs_call(h, s, o, which, v) ==
    IF h.obj[o].gritClass = NULL THEN Thrown(h, s, o)
    ELSE Res(setNeeds(h, o, which, v), s, Ev("needs", o))

\* getField as called from outside.
getField_call(h, s, o, f) ==
    IF h.obj[o].gritClass = NULL THEN Thrown(h, s, o)
    ELSE Res(h, s, Ev3("getField", o, IF getField(h, o, f) THEN "value" ELSE "nil"))

\* ------------------------------------------------------------ the actions
HookDepth(s) == Cardinality({i \in 1..Len(s) : s[i].kind = "hook"})

\* Records that object_add frames on the stack have still to construct.
PendingAdds(s) == Cardinality({i \in 1..Len(s) : s[i].kind = "add"})

\* The calls a script makes from inside a hook.
HookCallable == {"del", "add", "needs"}

\* An operation is entered from the frame loop (empty stack) or from a
\* running hook.  A crashed program does nothing more.
CanCall(kind) ==
    /\ ub # "crashed"
    /\ \/ stack = <<>>
       \/ /\ stack # <<>>
          /\ Top.kind = "hook"
          /\ kind \in HookCallable
          /\ HookDepth(stack) < MaxHooks
          /\ ncalls < MaxNested

\* The step leaves the program as m says.
Apply(m, call) ==
    /\ SetHeap(m.h)
    /\ stack' = m.s
    /\ ev' = m.e
    /\ ub' = m.ub
    /\ exc' = m.exc
    /\ escaped' = (m.exc # "none" /\ m.s = <<>>)
    /\ ncalls' = IF m.s = <<>> THEN 0
                 ELSE IF stack # <<>> /\ call THEN ncalls + 1
                 ELSE ncalls

Call_object_del(o) ==
    /\ CanCall("del")
    /\ o \in 1..nrec
    /\ Apply(object_del(Heap, stack, o), TRUE)

Call_object_add(name, c) ==
    /\ CanCall("add")
    /\ nrec + PendingAdds(stack) < MaxRecs
    /\ name = <<>> => \E k \in counter..(MaxCounter - 1) : objs[GenName(c, k)] = NoRec
    /\ Apply(object_add(Heap, stack, name, c), TRUE)

Call_object_all_del ==
    /\ CanCall("alldel")
    /\ Apply(object_all_del(Heap, stack), FALSE)

Call_activate(o, loadOk) ==
    /\ CanCall("activate")
    /\ o \in 1..nrec
    /\ Apply(activate(Heap, stack, o, loadOk), FALSE)

Call_deactivate(o) ==
    /\ CanCall("deactivate")
    /\ o \in 1..nrec
    /\ Apply(deactivate(Heap, stack, o), FALSE)

Call_init(o) ==
    /\ CanCall("init")
    /\ o \in 1..nrec
    /\ Apply(init(Heap, stack, o), FALSE)

Call_notifyFade(o) ==
    /\ CanCall("notifyFade")
    /\ o \in 1..nrec
    /\ Apply(notifyFade(Heap, stack, o), FALSE)

Call_setNeeds(o, which, v) ==
    /\ CanCall("needs")
    /\ o \in 1..nrec
    /\ Apply(needs_call(Heap, stack, o, which, v), TRUE)

Call_getField(o, f) ==
    /\ CanCall("getField")
    /\ o \in 1..nrec
    /\ Apply(getField_call(Heap, stack, o, f), FALSE)

Call_calcFade(o, range2) ==
    /\ CanCall("calcFade")
    /\ o \in 1..nrec
    /\ Apply(calcFade_call(Heap, stack, o, range2), FALSE)

Call_object_do_frame_callbacks ==
    /\ CanCall("pass")
    /\ Apply(object_do_frame_callbacks(Heap, stack), FALSE)

Call_object_do_step_callbacks ==
    /\ CanCall("pass")
    /\ Apply(object_do_step_callbacks(Heap, stack), FALSE)

\* A pass is at the head of its loop.
InPassLoop ==
    /\ ub # "crashed"
    /\ stack # <<>>
    /\ Top.kind = "pass"
    /\ Top.pc = "loop"

\* A pass goes on to its next victim (std::set orders them by address, so
\* any of them may be next).
PassTurn(i) ==
    /\ InPassLoop
    /\ i \in Top.victims
    /\ Apply(dispatch(Heap, stack, i), FALSE)

\* A pass has visited all its victims and returns.
PassEnd ==
    /\ InPassLoop
    /\ Top.victims = {}
    /\ Apply(Res(Heap, Pop(stack), Ev("pass_done", NoRec)), FALSE)

\* A running script returns (status 0, with a value) or raises (status 1).
\* Only the deactivate hook's value is read.
HookReturn(status, val, go) ==
    /\ ub # "crashed"
    /\ stack # <<>>
    /\ Top.kind = "hook"
    /\ val => (Top.pc = "deactivate" /\ status = 0)
    /\ Apply(AfterHook(Heap, Pop(stack), status, val, go), FALSE)

\* ------------------------------------------------------------ the program
Init ==
    /\ objs = [n \in Names |-> NoRec]
    /\ obj = [o \in Recs |-> NoObject]
    /\ nrec = 0
    /\ frameSet = {}
    /\ stepSet = {}
    /\ listed = {}
    /\ activated = {}
    /\ counter = 0
    /\ refs = [c \in Classes |-> 0]
    /\ streamer_fade_out_factor = RZero
    /\ streamer_fade_overlap_factor = RZero
    /\ stack = <<>>
    /\ exc = "none"
    /\ escaped = FALSE
    /\ ub = "none"
    /\ ncalls = 0
    /\ ev = NoEv

Next ==
    \/ \E o \in Recs : Call_object_del(o)
    \/ \E name \in PlainNames, c \in Classes : Call_object_add(name, c)
    \/ Call_object_all_del
    \/ \E o \in Recs, loadOk \in BOOLEAN : Call_activate(o, loadOk)
    \/ \E o \in Recs : Call_deactivate(o)
    \/ \E o \in Recs : Call_init(o)
    \/ \E o \in Recs : Call_notifyFade(o)
    \/ \E o \in Recs, which \in {"frame", "step"}, v \in BOOLEAN : Call_setNeeds(o, which, v)
    \/ \E o \in Recs, f \in Fields : Call_getField(o, f)
    \/ Call_object_do_frame_callbacks
    \/ Call_object_do_step_callbacks
    \/ \E i \in Recs : PassTurn(i)
    \/ PassEnd
    \/ \E status \in {0, 1}, val \in BOOLEAN, go \in BOOLEAN : HookReturn(status, val, go)

\* The registry and its lifecycle operations, every record explicitly named.
Spec == Init /\ [][Next]_vars

\* The registry alone: records are added (named, also in the generated form,
\* or unnamed) and deleted, and never activated.
NextNames ==
    \/ \E o \in Recs : Call_object_del(o)
    \/ \E name \in GenNames \cup {<<>>}, c \in Classes : Call_object_add(name, c)
    \/ Call_object_all_del

SpecNames == Init /\ [][NextNames]_vars

\* The records of the fade calculations: MaxRecs records added as
\* add("", K), some of them activated, some consecutive ones linked as near
\* and far neighbour, under some setting of the streamer's factors.
FadeNames == {GenName("K", k) : k \in 0..(MaxRecs - 1)}

InitFade ==
    /\ objs = [n \in Names |-> IF n \in FadeNames THEN n[3] + 1 ELSE NoRec]
    /\ \E act \in SUBSET Recs, linked \in SUBSET (1..(MaxRecs - 1)) :
          /\ obj = [o \in Recs |->
                      [GritObject(GenName("K", o - 1), "K") EXCEPT
                          !.anonymous = TRUE,
                          !.lua = IF o \in act THEN o ELSE LUA_NOREF,
                          !.far = IF o \in linked THEN o + 1 ELSE NoRec,
                          !.near = IF o - 1 \in linked THEN o - 1 ELSE NoRec]]
          /\ activated = act
    /\ nrec = MaxRecs
    /\ frameSet = {}
    /\ stepSet = {}
    /\ listed = Recs
    /\ counter = MaxRecs
    /\ refs = [c \in Classes |-> IF c = "K" THEN MaxRecs ELSE 0]
    /\ streamer_fade_out_factor \in Factors
    /\ streamer_fade_overlap_factor \in Factors
    /\ stack = <<>>
    /\ exc = "none"
    /\ escaped = FALSE
    /\ ub = "none"
    /\ ncalls = 0
    /\ ev = NoEv

NextFade ==
    \E o \in Recs, r \in Ranges : Call_calcFade(o, RMul(r, r))

\* The fade calculator on records that stay as they are.
SpecFade == InitFade /\ [][NextFade]_vars

\* object_del called by a script on a record other than the one whose hook
\* is running, or from the frame loop.
Call_object_del_other(o) ==
    /\ stack # <<>> => o # Top.o
    /\ Call_object_del(o)

\* The program with scripts whose only calls delete records other than the
\* one whose hook is running.
NextOthers ==
    \/ \E o \in Recs : Call_object_del_other(o)
    \/ \E name \in PlainNames, c \in Classes : stack = <<>> /\ Call_object_add(name, c)
    \/ Call_object_all_del
    \/ \E o \in Recs, loadOk \in BOOLEAN : Call_activate(o, loadOk)
    \/ \E o \in Recs : Call_deactivate(o)
    \/ \E status \in {0, 1}, val \in BOOLEAN, go \in BOOLEAN : HookReturn(status, val, go)

SpecOthers == Init /\ [][NextOthers]_vars

\* ------------------------------------------------------------------ claims
Live(o) == o \in 1..nrec /\ obj[o].gritClass # NULL
Destroyed(o) == o \in 1..nrec /\ obj[o].gritClass = NULL

\* How often o occurs in the sequence q.
Count(q, o) == Cardinality({i \in 1..Len(q) : q[i] = o})

\* C1: deleteAll, with deactivate hooks that delete other records, raises no
\* error, and when it returns the registry is empty and every record of its
\* snapshot is destroyed.
C1_DeleteAllClean ==
    /\ (stack # <<>> /\ stack[1].kind = "alldel") => (ub = "none" /\ exc = "none")
    /\ ev.what = "alldel_done" =>
          /\ ub = "none"
          /\ object_count(Heap) = 0
          /\ \A o \in ev.snap : Destroyed(o)

\* C2: object_del(o) called from o's deactivate hook, itself run by an
\* object_del(o) in progress, does not run the hook again, and the class
\* reference is released once (no release through a NULL gritClass).
C2_NestedDeleteIsNoOp ==
    /\ \A i, j \in 1..Len(stack) :
          ~ /\ i < j
            /\ stack[i].kind = "hook" /\ stack[i].pc = "deactivate"
            /\ stack[j].kind = "hook" /\ stack[j].pc = "deactivate"
            /\ stack[i].o = stack[j].o
            /\ stack[i - 1].kind = "del"
            /\ stack[j - 1].kind = "del"
    /\ ub = "none"

\* C3: object_del on a record that is already destroyed changes nothing: not
\* the name map, the hot-sets or any record.
C3_DoubleDeleteIsNoOp ==
    [][\A o \in Recs : (Destroyed(o) /\ Call_object_del(o)) => UNCHANGED heapvars]_vars

\* An operation of C4's list is called on the handle o.
OperationOn(o) ==
    \/ \E loadOk \in BOOLEAN : Call_activate(o, loadOk)
    \/ Call_deactivate(o)
    \/ Call_init(o)
    \/ Call_notifyFade(o)
    \/ \E f \in Fields : Call_getField(o, f)
    \/ \E which \in {"frame", "step"}, v \in BOOLEAN : Call_setNeeds(o, which, v)
    \/ PassTurn(o)

\* C4: activate, deactivate, init, notifyFade, getField, setNeeds*Callbacks,
\* frameCallback and stepCallback on a destroyed record raise "Object
\* destroyed", enter no hook and change nothing of the registry, the
\* hot-sets or the records.
C4_DestroyedHandleRaises ==
    [][\A o \in Recs : (Destroyed(o) /\ OperationOn(o)) =>
          /\ exc' = "Object destroyed"
          /\ ev' = Ev("throw", o)
          /\ stack' = Unwind(stack)
          /\ UNCHANGED heapvars]_vars

C4_Witness ==
    /\ ev.what = "throw"
    /\ exc = "Object destroyed"
    /\ Destroyed(ev.o)
    /\ stack # <<>>
    /\ Top.kind = "hook"
    /\ Top.o # ev.o

\* C5: activate, then deactivate of a record whose class defines both hooks:
\* when the deactivate hook returns false the record is left inactive, live
\* and registered as it was; when it returns true the record ends destroyed
\* and its name unregistered.
C5_DeactivateResult ==
    [][\A v \in BOOLEAN, go \in BOOLEAN :
          (Len(stack) = 2 /\ stack[1].kind = "deactivate" /\ HookReturn(0, v, go)) =>
              LET o == stack[1].o IN
              /\ stack' = <<>>
              /\ exc' = "none"
              /\ obj'[o].lua = LUA_NOREF
              /\ o \notin activated'
              /\ ~v => /\ objs' = objs
                       /\ listed' = listed
                       /\ obj'[o].gritClass = obj[o].gritClass
                       /\ ev' = Ev3("deactivate_false", o, "false")
              /\ v => /\ obj'[o].gritClass = NULL
                      /\ objs'[obj[o].name] = NoRec
                      /\ o \notin listed'
                      /\ ev' = Ev3("deactivate_deleted", o, "true")]_vars

C5_Witness ==
    /\ ev.what = "deactivate_deleted"
    /\ ev.r = "true"
    /\ Destroyed(ev.o)
    /\ \E p \in Recs \ {ev.o} :
          /\ Live(p)
          /\ obj[p].gritClass = "K"
          /\ obj[p].lua = LUA_NOREF
          /\ obj[p].lastFade = -1
          /\ objs[obj[p].name] = p

\* C6: activate on a live record that is not activated and has no "activate"
\* field deletes it: on return the record is destroyed, its name is not in
\* the registry, and it is not, and was not, listed as activated.
C6_ActivateWithoutHookDeletes ==
    [][\A o \in Recs :
          (/\ Live(o)
           /\ ~isActivated(Heap, o)
           /\ ~getField(Heap, o, "activate")
           /\ Call_activate(o, TRUE)) =>
              /\ obj'[o].gritClass = NULL
              /\ ~object_has(Heap', obj[o].name)
              /\ obj'[o].lua = LUA_NOREF
              /\ o \notin activated
              /\ o \notin activated'
              /\ o \notin listed'
              /\ stack' = <<>>
              /\ exc' = "none"
              /\ ev' = Ev3("activate_deleted", o, "nofield")]_vars

C6_Witness ==
    /\ ev.what = "activate_deleted"
    /\ ev.r = "nofield"
    /\ Destroyed(ev.o)
    /\ ~object_has(Heap, obj[ev.o].name)

\* C7: add("", c) takes a generated name that no record has: nothing is
\* replaced or deleted, the counter ends one past the suffix taken, and the
\* suffix is larger than that of every record named by an earlier add("", .).
C7_AnonymousNameIsFresh ==
    [][\A c \in Classes : Call_object_add(<<>>, c) =>
          LET k == counter' - 1
              n == GenName(c, k)
          IN  /\ k >= counter
              /\ k < MaxCounter
              /\ objs[n] = NoRec
              /\ nrec' = nrec + 1
              /\ objs'[n] = nrec'
              /\ obj'[nrec'].name = n
              /\ obj'[nrec'].anonymous
              /\ obj'[nrec'].gritClass = c
              /\ \A m \in Names \ {n} : objs'[m] = objs[m]
              /\ \A o \in 1..nrec : obj'[o] = obj[o]
              /\ \A o \in 1..nrec : obj[o].anonymous => obj[o].name[3] < k
              /\ ev' = Ev("add_anon", nrec')]_vars

C7_Witness ==
    \E c \in Classes, p \in Recs, q \in Recs :
        /\ Live(p) /\ ~obj[p].anonymous /\ obj[p].name = GenName(c, 0) /\ objs[GenName(c, 0)] = p
        /\ Live(q) /\ obj[q].anonymous /\ obj[q].name = GenName(c, 1) /\ objs[GenName(c, 1)] = q
        /\ ev = Ev("add_anon", q)

\* What holds when object_add(n, c) has replaced the record prior.
Replaced(n, c, prior) ==
    /\ nrec' = nrec + 1
    /\ ev'.what = "add_replaced"
    /\ ev'.o = nrec'
    /\ objs'[n] = nrec'
    /\ obj'[nrec'].name = n
    /\ obj'[nrec'].gritClass = c
    /\ ~isActivated(Heap', nrec')
    /\ nrec' \in listed'
    /\ nrec' \notin activated' \cup frameSet' \cup stepSet'
    /\ obj'[prior].gritClass = NULL
    /\ obj'[prior].lua = LUA_NOREF
    /\ obj'[prior].userValues = {}
    /\ prior \notin listed'
    /\ Registered(Heap') = Registered(Heap) \cup {n}

\* C8: object_add(n, c) on a name that maps to a live record destroys that
\* record before the new one exists: while the prior record's deactivate hook
\* runs nothing is inserted, and when object_add returns the prior record is
\* destroyed and unlisted, n maps to a new record of class c that is not
\* activated, and the number of registered names is as before.
C8_AddReplaces ==
    [][/\ \A n \in PlainNames, c \in Classes :
            (objs[n] # NoRec /\ Live(objs[n]) /\ Call_object_add(n, c)) =>
                \/ /\ Replaced(n, c, objs[n])
                   /\ stack' = stack
                   /\ object_count(Heap') = object_count(Heap)
                   /\ objs[n] \notin activated' \cup frameSet' \cup stepSet'
                \/ /\ ev' = Ev("del_hook", objs[n])
                   /\ isActivated(Heap, objs[n])
                   /\ Len(stack') = Len(stack) + 3
                   /\ stack'[Len(stack) + 1].kind = "add"
                   /\ nrec' = nrec
                   /\ objs' = objs
       /\ \A status \in {0, 1}, go \in BOOLEAN :
            (/\ Len(stack) >= 3
             /\ stack[Len(stack) - 2].kind = "add"
             /\ HookReturn(status, FALSE, go)
             /\ ub' # "crashed") =>
                LET f == stack[Len(stack) - 2] IN
                /\ Replaced(f.name, f.cls, f.o)
                /\ stack' = SubSeq(stack, 1, Len(stack) - 3)
                /\ ncalls = 0 =>
                      /\ object_count(Heap') = object_count(Heap)
                      /\ f.o \notin activated' \cup frameSet' \cup stepSet']_vars

C8_Witness ==
    /\ ev.what = "add_replaced"
    /\ ev.r = "hooked"
    /\ stack = <<>>
    /\ ncalls = 0
    /\ \E prior \in Recs \ {ev.o} :
          /\ Destroyed(prior)
          /\ obj[prior].name = obj[ev.o].name
          /\ obj[prior].needsFrameCallbacks
    /\ objs[obj[ev.o].name] = ev.o
    /\ Live(ev.o)

\* C9: a pass walks the hot-set as it was when the pass began: the pass ends
\* only when every record of that snapshot has been dispatched to exactly
\* once, and it dispatches to no other record.
C9_PassVisitsSnapshotOnce ==
    [][(stack # <<>> /\ stack[1].kind = "pass") =>
          \/ /\ stack' # <<>>
             /\ stack'[1].kind = "pass"
             /\ stack'[1].snap = stack[1].snap
          \/ /\ stack' = <<>>
             /\ exc' = "none"
             /\ stack[1].victims = {}
             /\ \A o \in stack[1].snap : Count(stack[1].calls, o) = 1
             /\ \A o \in Recs \ stack[1].snap : Count(stack[1].calls, o) = 0]_vars

\* C10: in a pass, a record whose callback field is absent, or whose hook
\* raises an error, leaves the hot-set with its flag cleared; it is not
\* destroyed, the registry is unchanged, no exception is raised and the pass
\* goes on.
C10_CallbackErrorUnsubscribes ==
    [][/\ \A i \in Recs :
            (/\ PassTurn(i)
             /\ Live(i)
             /\ ~getField(Heap, i, HookOf(Top.which))) =>
                /\ exc' = "none"
                /\ stack' # <<>> /\ stack'[1].kind = "pass"
                /\ i \notin HotSet(Heap', stack[1].which)
                /\ objs' = objs
                /\ obj'[i].gritClass = obj[i].gritClass
       /\ \A go \in BOOLEAN :
            (/\ Len(stack) = 2
             /\ stack[1].kind = "pass"
             /\ HookReturn(1, FALSE, go)) =>
                LET i == stack[1].o IN
                /\ exc' = "none"
                /\ stack' # <<>> /\ stack'[1].kind = "pass"
                /\ i \notin HotSet(Heap', stack[1].which)
                /\ ~(IF stack[1].which = "frame" THEN obj'[i].needsFrameCallbacks
                     ELSE obj'[i].needsStepCallbacks)
                /\ objs' = objs
                /\ obj'[i].gritClass = obj[i].gritClass]_vars

\* A pass itself takes a step: it turns to its next victim, or the hook it
\* called returns into it.
PassStep ==
    \/ \E i \in Recs : PassTurn(i)
    \/ /\ Len(stack) = 2
       /\ stack[1].kind = "pass"
       /\ \E status \in {0, 1}, go \in BOOLEAN : HookReturn(status, FALSE, go)

\* C11: a dispatch pass never raises "Object destroyed": it neither
\* dispatches to a destroyed record nor unsubscribes one.
C11_PassNeverRaisesDestroyed ==
    [][PassStep => exc' # "Object destroyed"]_vars

\* C12: every record, live or destroyed, is in the frame hot-set exactly when
\* its needsFrameCallbacks flag is set, and in the step hot-set exactly when
\* its needsStepCallbacks flag is set.
C12_HotSetMirrorsFlag ==
    \A o \in 1..nrec :
        /\ o \in frameSet <=> obj[o].needsFrameCallbacks
        /\ o \in stepSet <=> obj[o].needsStepCallbacks

\* The fade calcFade starts from: the imposedFarFade of an activated near
\* neighbour, 1 without one.
StartFade(o) ==
    IF obj[o].near # NoRec /\ isActivated(Heap, obj[o].near)
    THEN obj[obj[o].near].imposedFarFade
    ELSE ROne

\* calcFade is called on record o about the distance r.
CalcFadeOn(o, r) ==
    /\ ev'.what = "calcFade"
    /\ ev'.o = o
    /\ ev'.range = r
    /\ Call_calcFade(o, RMul(r, r))

\* C13, as stated: for a record without far neighbour, whatever its near
\* neighbour, the fade is exactly 1 for a range up to the fade-out factor,
\* strictly decreasing in the range above it and 0 at range 1, and
\* imposedFarFade becomes 1.
C13_NoFarFadeAsStated ==
    [][\A o \in Recs, r \in Ranges :
          (obj[o].far = NoRec /\ CalcFadeOn(o, r)) =>
              /\ RLeq(r, streamer_fade_out_factor) => ev'.fade = ROne
              /\ RLess(streamer_fade_out_factor, r) =>
                    \A q \in Ranges :
                        RLess(r, q) => RLess(calcFade(Heap, o, RMul(q, q)).fade, ev'.fade)
              /\ r = ROne => ev'.fade = RZero
              /\ obj'[o].imposedFarFade = ROne]_vars

\* C13, amended: for a record without far neighbour the fade is the starting
\* fade (1 unless an activated near neighbour imposes less) for a range up to
\* the fade-out factor; above it, it is (1-range)/(1-out) up to range 1,
\* strictly decreasing there, 0 at range 1 and beyond; imposedFarFade becomes 1.
C13_NoFarFade ==
    [][\A o \in Recs, r \in Ranges :
          (obj[o].far = NoRec /\ CalcFadeOn(o, r)) =>
              LET out == streamer_fade_out_factor IN
              /\ RLeq(r, out) => ev'.fade = StartFade(o)
              /\ (RLeq(r, out) /\ StartFade(o) = ROne) => ev'.fade = ROne
              /\ (RLess(out, r) /\ RLeq(r, ROne)) =>
                    /\ ev'.fade = RDiv(RSub(ROne, r), RSub(ROne, out))
                    /\ RLess(ev'.fade, ROne)
                    /\ \A q \in Ranges :
                          (RLess(r, q) /\ RLeq(q, ROne)) =>
                              RLess(calcFade(Heap, o, RMul(q, q)).fade, ev'.fade)
              /\ RLeq(ROne, r) => ev'.fade = RZero
              /\ obj'[o].imposedFarFade = ROne
              /\ \A p \in Recs \ {o} : obj'[p] = obj[p]]_vars

C13_Witness ==
    /\ ev.what = "calcFade"
    /\ obj[ev.o].far = NoRec
    /\ RLeq(ev.range, streamer_fade_out_factor)
    /\ RLess(RZero, ev.range)
    /\ obj[ev.o].near # NoRec
    /\ isActivated(Heap, obj[ev.o].near)
    /\ ev.fade = obj[obj[ev.o].near].imposedFarFade
    /\ RLess(ev.fade, ROne)
    /\ ev.overlap
    /\ obj[ev.o].imposedFarFade = ROne

\* C14: for a record with a far neighbour, with overmid = (over + 1)/2:
\* imposedFarFade becomes 0 for a range up to the overlap factor, 1 at
\* overmid and beyond, and in between it is 1 - (overmid-range)/(overmid-over),
\* which does not decrease as the range grows; the fade is the falloff
\* (1-range)/(1-overmid), clamped at 0, only above overmid, and the starting
\* fade otherwise.
C14_FarFadeBands ==
    [][\A o \in Recs, r \in Ranges :
          (obj[o].far # NoRec /\ CalcFadeOn(o, r)) =>
              LET over == streamer_fade_overlap_factor
                  overmid == RDiv(RAdd(over, ROne), RTwo)
                  imposed == obj'[o].imposedFarFade
                  linear == RDiv(RSub(ROne, r), RSub(ROne, overmid))
              IN  /\ RLeq(r, over) => imposed = RZero
                  /\ RLeq(overmid, r) => imposed = ROne
                  /\ (RLess(over, r) /\ RLeq(r, overmid)) =>
                        /\ imposed = RSub(ROne, RDiv(RSub(overmid, r), RSub(overmid, over)))
                        /\ RLess(RZero, imposed)
                        /\ \A q \in Ranges :
                              (RLess(r, q) /\ RLeq(q, overmid)) =>
                                  RLess(imposed, calcFade(Heap, o, RMul(q, q)).imposedFarFade)
                  /\ RLess(overmid, r) =>
                        ev'.fade = IF RLess(linear, RZero) THEN RZero ELSE linear
                  /\ RLeq(r, overmid) => ev'.fade = StartFade(o)
                  /\ \A p \in Recs \ {o} : obj'[p] = obj[p]]_vars

C14_Witness ==
    /\ ev.what = "calcFade"
    /\ obj[ev.o].far # NoRec
    /\ RLess(streamer_fade_overlap_factor, ev.range)
    /\ RLess(ev.range, RDiv(RAdd(streamer_fade_overlap_factor, ROne), RTwo))
    /\ RLess(RZero, obj[ev.o].imposedFarFade)
    /\ RLess(obj[ev.o].imposedFarFade, ROne)
    /\ ev.fade = ROne

\* C15: deactivate on a live record that is not activated returns false and
\* runs no hook; on an activated one, every return leaves lua = LUA_NOREF, and
\* the result is true when the deactivate field is absent or the hook raises,
\* and the hook's value otherwise.  (The result is seen in what the caller
\* does with it.)
C15_DeactivateInvalidatesInstance ==
    [][/\ \A o \in Recs :
            (Live(o) /\ Call_deactivate(o)) =>
                IF ~isActivated(Heap, o)
                THEN /\ ev' = Ev3("deactivate_false", o, "noop")
                     /\ stack' = <<>>
                     /\ UNCHANGED heapvars
                ELSE IF ~getField(Heap, o, "deactivate")
                THEN /\ ev' = Ev3("deactivate_deleted", o, "nofield")
                     /\ stack' = <<>>
                     /\ ~isActivated(Heap', o)
                     /\ o \notin activated'
                ELSE /\ ev' = Ev("deactivate_hook", o)
                     /\ Len(stack') = 2
                     /\ stack'[2] = Frame("hook", "deactivate", o)
                     /\ o \notin activated'
                     /\ isActivated(Heap', o)
       /\ \A status \in {0, 1}, v \in BOOLEAN, go \in BOOLEAN :
            (Len(stack) = 2 /\ stack[1].kind = "deactivate" /\ HookReturn(status, v, go)) =>
                LET o == stack[1].o IN
                /\ obj'[o].lua = LUA_NOREF
                /\ stack' = <<>>
                /\ ev'.o = o
                /\ ev'.what = IF status # 0 \/ v THEN "deactivate_deleted" ELSE "deactivate_false"
                /\ ev'.r = IF status # 0 THEN "error" ELSE IF v THEN "true" ELSE "false"]_vars

C15_Witness ==
    /\ ev.what = "deactivate_deleted"
    /\ ev.r = "error"
    /\ Destroyed(ev.o)
    /\ obj[ev.o].lua = LUA_NOREF
    /\ stack = <<>>

\* The activate hook of o, run by a top-level activate, returns an error.
ActivateHookRaises(o) ==
    /\ Len(stack) = 2
    /\ stack[1] = Frame("activate", "hook", o)
    /\ stack[2] = Frame("hook", "activate", o)
    /\ \E go \in BOOLEAN : HookReturn(1, FALSE, go)

\* activate has returned from its object_del(self) after the hook's error: o
\* is destroyed, no name maps to it, it has no instance and is not listed as
\* activated.
ActivateTornDown(o) ==
    /\ stack' = <<>>
    /\ ev' = Ev3("activate_deleted", o, "error")
    /\ obj'[o].gritClass = NULL
    /\ \A n \in DOMAIN objs' : objs'[n] # o
    /\ obj'[o].lua = LUA_NOREF
    /\ o \notin activated'

\* The teardown that follows the error: the deactivate hook is entered (once,
\* under the frames of activate and object_del) when the record has one, and
\* activate returns with the record torn down when it has none.
TeardownBegins(o) ==
    IF getField(Heap, o, "deactivate")
    THEN /\ stack' = <<[Frame("activate", "del", o) EXCEPT !.why = "error"],
                       Frame("del", "hook", o), Frame("hook", "deactivate", o)>>
         /\ ev' = Ev("del_hook", o)
         /\ obj'[o].lua = o
         /\ o \notin activated'
    ELSE ActivateTornDown(o)

\* The deactivate hook of that teardown returns (with any status and value) and
\* the program does not stop on the way: activate returns, the hook is not
\* entered again.
TeardownEnds(o) ==
    /\ Len(stack) = 3
    /\ stack[1].kind = "activate" /\ stack[1].why = "error" /\ stack[1].o = o
    /\ stack[3] = Frame("hook", "deactivate", o)
    /\ \E status \in {0, 1}, v \in BOOLEAN, go \in BOOLEAN : HookReturn(status, v, go)
    /\ ub' # "crashed"

InUnit(x) == RLeq(RZero, x) /\ RLeq(x, ROne)

\* C17: with both factors in [0,1) and any range >= 0, after any chain of
\* calcFade calls over records with or without neighbours, every record's
\* imposedFarFade is in [0,1] and the fade calcFade returned is in [0,1].
C17_FadeInUnitInterval ==
    /\ \A o \in 1..nrec : InUnit(obj[o].imposedFarFade)
    /\ ev.what = "calcFade" => InUnit(ev.fade)

\* calcFade at a range above 1 returned 0 for a record whose activated near
\* neighbour imposes a fade below 1.
C17_Witness ==
    /\ ev.what = "calcFade"
    /\ RLess(ROne, ev.range)
    /\ ev.fade = RZero
    /\ ev.overlap
    /\ \E p \in 1..nrec : obj[p].far = ev.o /\ RLess(obj[p].imposedFarFade, ROne)

\* C18: whenever no operation is in progress, the streamer's activated set is
\* exactly the set of records that are activated, and holds no destroyed
\* record.
C18_ActivatedSetExact ==
    stack = <<>> =>
        /\ activated = {o \in 1..nrec : isActivated(Heap, o)}
        /\ \A o \in activated : ~Destroyed(o)

\* C19: whenever no operation is in progress, a record is non-destroyed
\* exactly when the registry maps the record's own name to that record.
C19_RegistryMirrorsLiveness ==
    stack = <<>> =>
        \A o \in 1..nrec : Live(o) <=> objs[obj[o].name] = o

\* C20: for every class, acquires minus releases equals the number of
\* non-destroyed records that reference it, and release is never called
\* through a NULL class reference.
C20_ClassRefsBalanced ==
    /\ \A c \in Classes : refs[c] = Cardinality({o \in 1..nrec : obj[o].gritClass = c})
    /\ ub = "none"
====
